---- MODULE Spec2Model ----
(***************************************************************************)
(* Model of the Streamlit dashboard with PDF export (src/app.py).          *)
(*                                                                         *)
(* Text is modelled as a sequence of Unicode code points (integers), so    *)
(* that the Latin-1 restriction of the PDF engine (code point <= 255) and  *)
(* the substitutions of clean_text_for_pdf are computed, not assumed.      *)
(***************************************************************************)
EXTENDS Integers, Sequences, FiniteSets, TLC

VARIABLES
    san_in,             \* sanitizer harness: the text given to clean_text_for_pdf
    san_out,            \* sanitizer harness: clean_text_for_pdf(san_in), or NotRun
    san_twice,          \* sanitizer harness: clean_text_for_pdf(san_out), or NotRun
    all_products,       \* product_data of create_sample_data (rows with labels 0..4)
    selected_products,  \* per session: value of the product multiselect (set of names)
    user_notes,         \* per session: value of the notes text area
    product_data,       \* per session: the product rows handed to the export
    charts,             \* per session: dict built by create_charts
    pdf,                \* per session: the DashboardPDF being built (sequence of blocks)
    pdf_bytes,          \* per session: local pdf_bytes of main()
    pc,                 \* per session: position in main() / the export pipeline
    exc,                \* per session: the exception caught at the export boundary
    session_state,      \* per session: st.session_state (a dict)
    log,                \* per session: messages shown by st.success / st.error, one per attempt
    download_offered,   \* per session: whether the last script run rendered the download button
    files,              \* the working directory shared by all sessions
    Gcf                 \* matplotlib.pyplot's global stack of open figures (active = last)

sanVars == <<san_in, san_out, san_twice>>
appVars == <<all_products, selected_products, user_notes, product_data, charts, pdf,
             pdf_bytes, pc, exc, session_state, log, download_offered, files, Gcf>>
vars == <<san_in, san_out, san_twice, all_products, selected_products, user_notes,
          product_data, charts, pdf, pdf_bytes, pc, exc, session_state, log,
          download_offered, files, Gcf>>

(***************************************************************************)
(* Bounds.                                                                 *)
(***************************************************************************)
\* longest text given to the sanitizer harness, and longest notes text given
\* to a direct call of generate_dashboard_pdf
MaxLen == 2
\* number of rows of the unfiltered table given to a direct call of generate_dashboard_pdf
MaxRows == 3
\* number of times a session presses "Generate PDF Report"
MaxAttempts == 2

(***************************************************************************)
(* Text: code points, Latin-1, str.strip.                                  *)
(***************************************************************************)
\* Python's None, and the marker of a step that has not run, as values that
\* compare with texts (sequences of code points)
None == <<-1>>
NotRun == <<-2>>
\* the exception str.encode raises in strict mode
UnicodeEncodeError == <<-3>>

\* code points used by the model: 'A', ' ', '-', '?', e-acute, chr(149), the
\* eight keys of the substitution table, and a CJK character
Alphabet == {65, 32, 45, 63, 233, 149, 8226, 8211, 8212, 8216, 8217, 8220, 8221, 8230, 20013}

RECURSIVE StringsUpTo(_, _)
StringsUpTo(chars, n) ==
    IF n = 0 THEN {<<>>}
    ELSE LET shorter == StringsUpTo(chars, n - 1)
         IN  shorter \cup {Append(t, c) : t \in {x \in shorter : Len(x) = n - 1}, c \in chars}

\* str.replace(old, new) for a one-character old
RECURSIVE StrReplace(_, _, _)
StrReplace(text, old, new) ==
    IF text = <<>> THEN <<>>
    ELSE (IF Head(text) = old THEN new ELSE <<Head(text)>>) \o StrReplace(Tail(text), old, new)

\* str.encode('latin-1', errors): the bytes, or UnicodeEncodeError in strict mode
RECURSIVE EncodeReplace(_)
EncodeReplace(text) ==
    IF text = <<>> THEN <<>>
    ELSE <<IF Head(text) <= 255 THEN Head(text) ELSE 63>> \o EncodeReplace(Tail(text))

IsLatin1(text) == \A i \in 1..Len(text) : text[i] >= 0 /\ text[i] <= 255

encode_latin1(text, errors) ==
    IF IsLatin1(text) THEN text
    ELSE IF errors = "strict" THEN UnicodeEncodeError
    ELSE EncodeReplace(text)

\* bytes.decode('latin-1'): byte b is code point b
decode_latin1(bytes) == bytes

\* str.isspace for the code points of the model
IsSpace(c) == c \in {32, 9, 10, 13, 160}

RECURSIVE LStrip(_)
LStrip(text) ==
    IF text = <<>> THEN <<>>
    ELSE IF IsSpace(Head(text)) THEN LStrip(Tail(text)) ELSE text

RECURSIVE RStrip(_)
RStrip(text) ==
    IF text = <<>> THEN <<>>
    ELSE IF IsSpace(text[Len(text)]) THEN RStrip(SubSeq(text, 1, Len(text) - 1)) ELSE text

\* str.strip()
Strip(text) == RStrip(LStrip(text))

(***************************************************************************)
(* clean_text_for_pdf (src/app.py 213-239).                                *)
(***************************************************************************)
\* a table whose em-dash key was typed as the ASCII hyphen
replacements_hyphen_key ==
    << <<8226, <<149>> >>, <<8211, <<45>> >>, <<45, <<45, 45>> >>,
       <<8216, <<39>> >>, <<8217, <<39>> >>, <<8220, <<34>> >>,
       <<8221, <<34>> >>, <<8230, <<46, 46, 46>> >> >>

\* the dict `replacements`, in insertion order
replacements ==
    << <<8226, <<149>> >>,          \* bullet point -> chr(149)
       <<8211, <<45>> >>,           \* en dash -> '-'
       <<8212, <<45, 45>> >>,       \* em dash -> '--'
       <<8216, <<39>> >>,           \* left single quote -> "'"
       <<8217, <<39>> >>,           \* right single quote -> "'"
       <<8220, <<34>> >>,           \* left double quote -> '"'
       <<8221, <<34>> >>,           \* right double quote -> '"'
       <<8230, <<46, 46, 46>> >> >> \* ellipsis -> '...'

\* the loop `for unicode_char, replacement in replacements.items()`
RECURSIVE ApplyReplacements(_, _)
ApplyReplacements(text, i) ==
    IF i > Len(replacements) THEN text
    ELSE ApplyReplacements(StrReplace(text, replacements[i][1], replacements[i][2]), i + 1)

\* clean_text_for_pdf without the fallback of the except branch: the
\* UnicodeEncodeError escapes
clean_text_no_fallback(text) ==
    IF text = None \/ text = <<>> THEN text
    ELSE LET t == ApplyReplacements(text, 1)
         IN  IF encode_latin1(t, "strict") # UnicodeEncodeError THEN t
             ELSE UnicodeEncodeError

clean_text_for_pdf(text) ==
    IF text = None \/ text = <<>> THEN text
    ELSE LET t == ApplyReplacements(text, 1)
         IN  IF encode_latin1(t, "strict") # UnicodeEncodeError THEN t
             ELSE decode_latin1(encode_latin1(t, "replace"))

(***************************************************************************)
(* Data: product rows, images, files, figures.                             *)
(***************************************************************************)
Sessions == {"s1", "s2"}

\* 'Product A' .. 'Product E' (src/app.py 48)
PName(c) == <<80, 114, 111, 100, 117, 99, 116, 32, c>>
products == <<PName(65), PName(66), PName(67), PName(68), PName(69)>>

\* np.random.uniform(10000, 50000, 5): the draws are the data provider's; the
\* model lets Init choose among these
SalesDraws == {<<2, 5, 1, 4, 3>>, <<4, 1, 3, 5, 2>>}

\* create_sample_data: product_data with the default RangeIndex labels 0..4.
\* The columns 'Units Sold' and 'Rating' are only formatted as numbers and
\* are left out.
create_sample_data(sales) ==
    [i \in 1..Len(products) |-> [label |-> i - 1, Product |-> products[i], Sales |-> sales[i]]]

\* product_data[product_data['Product'].isin(selected)]: rows keep their labels
FilterProducts(rows, selected) == SelectSeq(rows, LAMBDA r : r.Product \in selected)

\* Series.idxmax(): the label of the first row holding the maximum; -1 stands
\* for the ValueError pandas raises on an empty Series
idxmax(rows) ==
    IF rows = <<>> THEN -1
    ELSE rows[CHOOSE i \in 1..Len(rows) :
                /\ \A j \in 1..Len(rows) : rows[j].Sales <= rows[i].Sales
                /\ \A j \in 1..(i - 1) : rows[j].Sales < rows[i].Sales].label

\* product_data.loc[label, 'Product'] (labels are unique)
loc(rows, label) == rows[CHOOSE i \in 1..Len(rows) : rows[i].label = label].Product

\* a call of the export pipeline: the session and the number of its attempt
NoCall == <<"none", 0>>
CallOf(s) == <<s, Len(log[s]) + 1>>

NoImage == [call |-> NoCall, kind |-> "none"]
Figure(call, kind) == [call |-> call, kind |-> kind]

TempFiles == {"temp_revenue_chart.png", "temp_product_chart.png"}
Absent == [state |-> "absent", writer |-> NoCall, data |-> NoImage]

\* the fixed part of summary_text that precedes the product name (the period,
\* the metrics and 'Top Performing Product: '), shortened to chr(149) + ' Top: '
SummaryLead == <<149, 32, 84, 111, 112, 58, 32>>

\* summary_text.strip() (src/app.py 124-135): the name is inserted as it is
summary_text(name) == Strip(SummaryLead \o name \o <<10>>)

HasNonLatin1(doc) == \E i \in 1..Len(doc) : doc[i].kind \in {"summary", "row", "notes"} /\ ~IsLatin1(doc[i].text)

(***************************************************************************)
(* The export pipeline of one session s.                                   *)
(***************************************************************************)
\* an exception propagates to the except clause of main()
Raise(s, e) == /\ pc' = [pc EXCEPT ![s] = "except"]
               /\ exc' = [exc EXCEPT ![s] = e]

Goto(s, at) == /\ pc' = [pc EXCEPT ![s] = at]
               /\ UNCHANGED exc

\* ---- create_charts (src/app.py 58-102)
\* plt.subplots + the plot on the new axes: the new figure becomes the active one
Subplots(s, at, kind, next) ==
    /\ pc[s] = at
    /\ Gcf' = Append(Gcf, Figure(CallOf(s), kind))
    /\ Goto(s, next)
    /\ UNCHANGED <<all_products, selected_products, user_notes, product_data, charts, pdf,
                   pdf_bytes, session_state, log, download_offered, files>>
    /\ UNCHANGED sanVars

\* plt.savefig(buffer): saves pyplot's active figure; gcf() opens an empty
\* figure when none is open
Savefig(s, at, key, next) ==
    /\ pc[s] = at
    /\ LET open == IF Gcf = <<>> THEN <<Figure(CallOf(s), "blank")>> ELSE Gcf
       IN  /\ Gcf' = open
           /\ charts' = [charts EXCEPT ![s][key] = open[Len(open)]]
    /\ Goto(s, next)
    /\ UNCHANGED <<all_products, selected_products, user_notes, product_data, pdf,
                   pdf_bytes, session_state, log, download_offered, files>>
    /\ UNCHANGED sanVars

\* plt.close(): closes pyplot's active figure, if any
Close(s, at, next) ==
    /\ pc[s] = at
    /\ Gcf' = IF Gcf = <<>> THEN Gcf ELSE SubSeq(Gcf, 1, Len(Gcf) - 1)
    /\ Goto(s, next)
    /\ UNCHANGED <<all_products, selected_products, user_notes, product_data, charts, pdf,
                   pdf_bytes, session_state, log, download_offered, files>>
    /\ UNCHANGED sanVars

Subplots1(s) == Subplots(s, "subplots1", "revenue_trend", "savefig1")
Savefig1(s) == Savefig(s, "savefig1", "revenue_trend", "close1")
Close1(s) == Close(s, "close1", "subplots2")
Subplots2(s) == Subplots(s, "subplots2", "product_sales", "savefig2")
Savefig2(s) == Savefig(s, "savefig2", "product_sales", "close2")
Close2(s) == Close(s, "close2", "summary")

\* ---- generate_dashboard_pdf (src/app.py 104-211)
buildFrame == <<san_in, san_out, san_twice, all_products, selected_products, user_notes,
                product_data, charts, pdf_bytes, session_state, log, download_offered, Gcf>>

\* the label of idxmax() used as a position (.iloc instead of .loc); -4 marks
\* the IndexError of a position past the end
TopProduct_iloc(rows) ==
    LET k == idxmax(rows) + 1
    IN  IF k \in 1..Len(rows) THEN rows[k].Product ELSE <<-4>>

\* product_data.loc[product_data['Sales'].idxmax(), 'Product'] (line 132)
TopProduct(rows) == loc(rows, idxmax(rows))

\* lines 106-136: new document, title, executive summary.  The summary text
\* goes to multi_cell as built.  A text outside Latin-1 is either refused by
\* the engine on insertion, or kept and refused when the output is encoded
\* (get_pdf_bytes, line 245).
Summary(s) ==
    /\ pc[s] = "summary"
    /\ IF idxmax(product_data[s]) = -1
       THEN /\ Raise(s, "ValueError")
            /\ pdf' = [pdf EXCEPT ![s] = <<>>]
       ELSE LET text == summary_text(TopProduct(product_data[s]))
            IN  \E strict \in BOOLEAN :
                  IF strict /\ ~IsLatin1(text)
                  THEN /\ Raise(s, "UnicodeEncodeError")
                       /\ pdf' = [pdf EXCEPT ![s] = <<>>]
                  ELSE /\ Goto(s, "open_rev")
                       /\ pdf' = [pdf EXCEPT ![s] = <<[kind |-> "summary", text |-> text]>>]
    /\ UNCHANGED buildFrame
    /\ UNCHANGED files

\* open(name, 'wb'): creates or truncates the file
Open(s, at, name, next) ==
    /\ pc[s] = at
    /\ files' = [files EXCEPT ![name] = [state |-> "empty", writer |-> CallOf(s), data |-> NoImage]]
    /\ Goto(s, next)
    /\ UNCHANGED buildFrame
    /\ UNCHANGED pdf

\* f.write(charts[key].getvalue()) and the close of the with block; the write
\* can fail (OSError, for instance a full disk), leaving the file as it is
Write(s, at, name, key, next) ==
    /\ pc[s] = at
    /\ \E ok \in BOOLEAN :
         IF ok
         THEN /\ files' = [files EXCEPT ![name] = [state |-> "written", writer |-> CallOf(s),
                                                   data |-> charts[s][key]]]
              /\ Goto(s, next)
         ELSE /\ UNCHANGED files
              /\ Raise(s, "OSError")
    /\ UNCHANGED buildFrame
    /\ UNCHANGED pdf

\* pdf.image(name, ...): reads the file by name at this moment
Image(s, at, name, next) ==
    /\ pc[s] = at
    /\ IF files[name].state = "absent"
       THEN /\ Raise(s, "FileNotFoundError")
            /\ UNCHANGED pdf
       ELSE IF files[name].state = "empty"
       THEN /\ Raise(s, "NotAnImage")
            /\ UNCHANGED pdf
       ELSE /\ Goto(s, next)
            /\ pdf' = [pdf EXCEPT ![s] = Append(@, [kind |-> "image", file |-> name,
                                                   writer |-> files[name].writer,
                                                   data |-> files[name].data])]
    /\ UNCHANGED buildFrame
    /\ UNCHANGED files

OpenRev(s) == Open(s, "open_rev", "temp_revenue_chart.png", "write_rev")
WriteRev(s) == Write(s, "write_rev", "temp_revenue_chart.png", "revenue_trend", "image_rev")
ImageRev(s) == Image(s, "image_rev", "temp_revenue_chart.png", "table")

\* lines 169-177: one row per product, the name through clean_text_for_pdf
TableRows(rows) == [i \in 1..Len(rows) |-> [kind |-> "row", text |-> clean_text_for_pdf(rows[i].Product)]]

Table(s) ==
    /\ pc[s] = "table"
    /\ pdf' = [pdf EXCEPT ![s] = @ \o TableRows(product_data[s])]
    /\ Goto(s, "open_prod")
    /\ UNCHANGED buildFrame
    /\ UNCHANGED files

OpenProd(s) == Open(s, "open_prod", "temp_product_chart.png", "write_prod")
WriteProd(s) == Write(s, "write_prod", "temp_product_chart.png", "product_sales", "image_prod")
ImageProd(s) == Image(s, "image_prod", "temp_product_chart.png", "notes")

\* the notes section emitted whenever notes is not None, blank or not
NotesSection_noBlankTest(notes) ==
    IF notes # None
    THEN <<[kind |-> "heading", title |-> "Additional Notes"],
           [kind |-> "notes", text |-> clean_text_for_pdf(Strip(notes))]>>
    ELSE <<>>

\* lines 194-201: `if user_notes and user_notes.strip()`
NotesSection(notes) ==
    IF notes # None /\ notes # <<>> /\ Strip(notes) # <<>>
    THEN <<[kind |-> "heading", title |-> "Additional Notes"],
           [kind |-> "notes", text |-> clean_text_for_pdf(Strip(notes))]>>
    ELSE <<>>

Notes(s) ==
    /\ pc[s] = "notes"
    /\ pdf' = [pdf EXCEPT ![s] = @ \o NotesSection(user_notes[s])]
    /\ Goto(s, "rm_rev")
    /\ UNCHANGED buildFrame
    /\ UNCHANGED files

\* try: os.remove(temp_file) / except: pass
Remove(s, at, name, next) ==
    /\ pc[s] = at
    /\ files' = [files EXCEPT ![name] = Absent]
    /\ Goto(s, next)
    /\ UNCHANGED buildFrame
    /\ UNCHANGED pdf

RmRev(s) == Remove(s, "rm_rev", "temp_revenue_chart.png", "rm_prod")
\* the second removal, then `return pdf`
RmProd(s) == Remove(s, "rm_prod", "temp_product_chart.png", "get_pdf_bytes")

Build(s) ==
    \/ Summary(s) \/ OpenRev(s) \/ WriteRev(s) \/ ImageRev(s) \/ Table(s)
    \/ OpenProd(s) \/ WriteProd(s) \/ ImageProd(s) \/ Notes(s) \/ RmRev(s) \/ RmProd(s)

(***************************************************************************)
(* Sanitizer harness: clean_text_for_pdf applied to a text, then to its    *)
(* own result.                                                             *)
(***************************************************************************)
NoCharts == [revenue_trend |-> NoImage, product_sales |-> NoImage]

AppIdle ==
    /\ all_products = <<>>
    /\ selected_products = [s \in Sessions |-> {}]
    /\ user_notes = [s \in Sessions |-> <<>>]
    /\ product_data = [s \in Sessions |-> <<>>]
    /\ charts = [s \in Sessions |-> NoCharts]
    /\ pdf = [s \in Sessions |-> <<>>]
    /\ pdf_bytes = [s \in Sessions |-> None]
    /\ pc = [s \in Sessions |-> "off"]
    /\ exc = [s \in Sessions |-> "none"]
    /\ session_state = [s \in Sessions |-> <<>>]
    /\ log = [s \in Sessions |-> <<>>]
    /\ download_offered = [s \in Sessions |-> FALSE]
    /\ files = [f \in TempFiles |-> Absent]
    /\ Gcf = <<>>

SanInputs == StringsUpTo(Alphabet, MaxLen)

InitSan ==
    /\ san_in \in SanInputs
    /\ san_out = NotRun
    /\ san_twice = NotRun
    /\ AppIdle

Sanitize ==
    /\ san_out = NotRun
    /\ san_out' = clean_text_for_pdf(san_in)
    /\ UNCHANGED <<san_in, san_twice>>
    /\ UNCHANGED appVars

SanitizeAgain ==
    /\ san_out # NotRun
    /\ san_twice = NotRun
    /\ san_twice' = clean_text_for_pdf(san_out)
    /\ UNCHANGED <<san_in, san_out>>
    /\ UNCHANGED appVars

NextSan == Sanitize \/ SanitizeAgain

SpecSan == InitSan /\ [][NextSan]_vars

(***************************************************************************)
(* A direct call generate_dashboard_pdf(sales_data, product_data,          *)
(* user_notes, charts) with arbitrary arguments, made by session s1.       *)
(***************************************************************************)
\* product names given to a direct call: 'A', and a name with a right single
\* quote (a key of the substitution table)
BuildNames == {<<65>>, <<65, 8217>>}
BuildSales == {1, 2}
NotesAlphabet == {32, 65, 8212}

\* the tables whose rows carry the labels of `labels`, in increasing order
RECURSIVE TablesOver(_, _)
TablesOver(next, n) ==
    IF next >= n THEN {<<>>}
    ELSE LET rest == TablesOver(next + 1, n)
         IN  rest \cup {<<[label |-> next, Product |-> p, Sales |-> v]>> \o t :
                          p \in BuildNames, v \in BuildSales, t \in rest}

SanIdle == san_in = <<>> /\ san_out = NotRun /\ san_twice = NotRun

InitBuild ==
    /\ SanIdle
    /\ all_products = <<>>
    /\ selected_products = [s \in Sessions |-> {}]
    /\ user_notes \in {[s \in Sessions |-> IF s = "s1" THEN n ELSE <<>>] :
                         n \in {None} \cup StringsUpTo(NotesAlphabet, MaxLen)}
    /\ product_data \in {[s \in Sessions |-> IF s = "s1" THEN t ELSE <<>>] :
                           t \in TablesOver(0, MaxRows)}
    /\ charts = [s \in Sessions |-> IF s = "s1"
                                    THEN [revenue_trend |-> Figure(<<"s1", 1>>, "revenue_trend"),
                                          product_sales |-> Figure(<<"s1", 1>>, "product_sales")]
                                    ELSE NoCharts]
    /\ pdf = [s \in Sessions |-> <<>>]
    /\ pdf_bytes = [s \in Sessions |-> None]
    /\ pc = [s \in Sessions |-> IF s = "s1" THEN "summary" ELSE "off"]
    /\ exc = [s \in Sessions |-> "none"]
    /\ session_state = [s \in Sessions |-> <<>>]
    /\ log = [s \in Sessions |-> <<>>]
    /\ download_offered = [s \in Sessions |-> FALSE]
    /\ files = [f \in TempFiles |-> Absent]
    /\ Gcf = <<>>


(***************************************************************************)
(* main() (src/app.py 251-403): script runs of a session.                  *)
(***************************************************************************)
\* session state reset at every script run (the `not in` test dropped)
InitSessionState_everyRun(state) == [pdf_data |-> None, pdf_filename |-> None]

\* lines 337-339: the keys are created on the first run only
InitSessionState(state) ==
    IF "pdf_data" \in DOMAIN state THEN state
    ELSE [pdf_data |-> None, pdf_filename |-> None]

\* line 367: `if st.session_state.pdf_data is not None`
ShowsDownload(state) == state.pdf_data # None

\* values a user gives to the multiselect and to the notes text area
SelectionChoices == {{}, {products[2], products[4]}, {products[i] : i \in 1..Len(products)}}
NotesChoices == {<<>>, <<32>>, <<65, 8212>>}

uiFrame == <<san_in, san_out, san_twice, all_products, charts, pdf, pdf_bytes, exc, log,
             files, Gcf>>

\* the script body outside the export: widgets, filter (line 285), session
\* state (lines 337-339) and download button (line 367)
RunScript(s, sel, notes) ==
    /\ selected_products' = [selected_products EXCEPT ![s] = sel]
    /\ user_notes' = [user_notes EXCEPT ![s] = notes]
    /\ product_data' = [product_data EXCEPT ![s] = FilterProducts(all_products, sel)]
    /\ session_state' = [session_state EXCEPT ![s] = InitSessionState(@)]
    /\ download_offered' = [download_offered EXCEPT ![s] = ShowsDownload(session_state'[s])]
    /\ pc' = [pc EXCEPT ![s] = "idle"]
    /\ UNCHANGED uiFrame

\* the first script run of a session: the widgets hold their defaults (all
\* products selected, line 282; no notes)
Load(s) ==
    /\ pc[s] = "off"
    /\ RunScript(s, {products[i] : i \in 1..Len(products)}, <<>>)

\* the script run that follows a change of a widget
Rerun(s) ==
    /\ pc[s] = "idle"
    /\ \E sel \in SelectionChoices, notes \in NotesChoices : RunScript(s, sel, notes)

\* the script run that follows a click on "Generate PDF Report", up to the
\* start of the try block (line 344)
Click(s, limit) ==
    /\ pc[s] = "idle"
    /\ Len(log[s]) < limit
    /\ product_data' = [product_data EXCEPT ![s] = FilterProducts(all_products, selected_products[s])]
    /\ session_state' = [session_state EXCEPT ![s] = InitSessionState(@)]
    /\ charts' = [charts EXCEPT ![s] = NoCharts]
    /\ pdf' = [pdf EXCEPT ![s] = <<>>]
    /\ pdf_bytes' = [pdf_bytes EXCEPT ![s] = None]
    /\ pc' = [pc EXCEPT ![s] = "subplots1"]
    /\ exc' = [exc EXCEPT ![s] = "none"]
    /\ UNCHANGED <<san_in, san_out, san_twice, all_products, selected_products, user_notes,
                   log, download_offered, files, Gcf>>

\* pdf.output(dest='S') normalised to bytes (lines 241-249): the document and
\* the time stamps of its call; a str output is encoded as Latin-1 (line 245)
Serialize(s) == <<CallOf(s)[2], pdf[s]>>

GetPdfBytes(s) ==
    /\ pc[s] = "get_pdf_bytes"
    /\ IF HasNonLatin1(pdf[s])
       THEN /\ Raise(s, "UnicodeEncodeError")
            /\ UNCHANGED pdf_bytes
       ELSE /\ Goto(s, "store")
            /\ pdf_bytes' = [pdf_bytes EXCEPT ![s] = Serialize(s)]
    /\ UNCHANGED <<san_in, san_out, san_twice, all_products, selected_products, user_notes,
                   product_data, charts, pdf, session_state, log, download_offered, files, Gcf>>

\* f"Dashboard_Report_{now}.pdf": the time stamp of the call
Filename(s) == <<CallOf(s)[2]>>

\* the except clause also keeps what the attempt produced so far
ExceptState_keepsPartial(s) ==
    [pdf_data |-> <<CallOf(s)[2], pdf[s]>>, pdf_filename |-> Filename(s)]

\* the session state after the except clause (lines 363-364): untouched
ExceptState(s) == session_state[s]

\* lines 358-359
StoredState(s) == [pdf_data |-> pdf_bytes[s], pdf_filename |-> Filename(s)]

\* lines 355-361: file name, session state, st.success
Store(s) ==
    /\ pc[s] = "store"
    /\ session_state' = [session_state EXCEPT ![s] = StoredState(s)]
    /\ log' = [log EXCEPT ![s] = Append(@, "success")]
    /\ Goto(s, "download")
    /\ UNCHANGED <<san_in, san_out, san_twice, all_products, selected_products, user_notes,
                   product_data, charts, pdf, pdf_bytes, download_offered, files, Gcf>>

\* lines 363-364: st.error with the message of the exception
Except(s) ==
    /\ pc[s] = "except"
    /\ session_state' = [session_state EXCEPT ![s] = ExceptState(s)]
    /\ log' = [log EXCEPT ![s] = Append(@, exc[s])]
    /\ Goto(s, "download")
    /\ UNCHANGED <<san_in, san_out, san_twice, all_products, selected_products, user_notes,
                   product_data, charts, pdf, pdf_bytes, download_offered, files, Gcf>>

\* lines 366-384: the download button, then the end of the script run
Download(s) ==
    /\ pc[s] = "download"
    /\ download_offered' = [download_offered EXCEPT ![s] = ShowsDownload(session_state[s])]
    /\ Goto(s, "idle")
    /\ UNCHANGED <<san_in, san_out, san_twice, all_products, selected_products, user_notes,
                   product_data, charts, pdf, pdf_bytes, session_state, log, files, Gcf>>

CreateCharts(s) ==
    \/ Subplots1(s) \/ Savefig1(s) \/ Close1(s) \/ Subplots2(s) \/ Savefig2(s) \/ Close2(s)

Init ==
    /\ SanIdle
    /\ all_products \in {create_sample_data(d) : d \in SalesDraws}
    /\ selected_products = [s \in Sessions |-> {}]
    /\ user_notes = [s \in Sessions |-> <<>>]
    /\ product_data = [s \in Sessions |-> <<>>]
    /\ charts = [s \in Sessions |-> NoCharts]
    /\ pdf = [s \in Sessions |-> <<>>]
    /\ pdf_bytes = [s \in Sessions |-> None]
    /\ pc = [s \in Sessions |-> "off"]
    /\ exc = [s \in Sessions |-> "none"]
    /\ session_state = [s \in Sessions |-> <<>>]
    /\ log = [s \in Sessions |-> <<>>]
    /\ download_offered = [s \in Sessions |-> FALSE]
    /\ files = [f \in TempFiles |-> Absent]
    /\ Gcf = <<>>

Pipeline(s) ==
    \/ CreateCharts(s) \/ Build(s) \/ GetPdfBytes(s) \/ Store(s) \/ Except(s) \/ Download(s)

\* two sessions of the app run in one process and one working directory;
\* each loads the page and exports once
Next ==
    \E s \in Sessions : Load(s) \/ Click(s, 1) \/ Pipeline(s)

Spec == Init /\ [][Next]_vars

\* one session: page load, widget changes and up to MaxAttempts exports
NextSession ==
    \/ Load("s1") \/ Rerun("s1") \/ Click("s1", MaxAttempts) \/ Pipeline("s1")

SpecSession == Init /\ [][NextSession]_vars

\* the direct call, followed by get_pdf_bytes on the document it returns
NextBuild == Build("s1") \/ GetPdfBytes("s1")

SpecBuild == InitBuild /\ [][NextBuild]_vars

(***************************************************************************)
(* Properties.                                                             *)
(***************************************************************************)
Max(S) == CHOOSE m \in S : \A x \in S : x <= m

Successes(s) == {i \in 1..Len(log[s]) : log[s][i] = "success"}

HasState(s) == "pdf_data" \in DOMAIN session_state[s]

\* C1: an export attempt is all-or-nothing.  Whatever session state holds
\* (bytes, file name) carries the stamp of an attempt that ended with the
\* success message, never of the attempt in progress or of one that failed;
\* an attempt that raised ends with its error shown by st.error; and the
\* download button is only rendered over stored bytes.
C1_AllOrNothing ==
    \A s \in Sessions :
        /\ HasState(s) =>
             /\ session_state[s].pdf_data # None =>
                  session_state[s].pdf_data[1] \in Successes(s)
             /\ session_state[s].pdf_filename # None =>
                  session_state[s].pdf_filename[1] \in Successes(s)
        /\ (pc[s] \in {"download", "idle"} /\ exc[s] # "none") =>
             /\ Len(log[s]) >= 1
             /\ log[s][Len(log[s])] = exc[s]
             /\ exc[s] # "success"
        /\ download_offered[s] => (HasState(s) /\ session_state[s].pdf_data[1] \in Successes(s))

\* C1 witness: an attempt failed after part of the document was built; the
\* error is shown and nothing is stored
C1_Witness ==
    /\ pc["s1"] = "download"
    /\ exc["s1"] = "OSError"
    /\ pdf["s1"] # <<>>
    /\ session_state["s1"].pdf_data = None
    /\ log["s1"] = <<"OSError">>

\* C2: when a call of generate_dashboard_pdf has ended (returned or raised),
\* no temporary chart file written by that call exists any more.
C2_TempFilesDeleted ==
    \A s \in Sessions :
        pc[s] \in {"get_pdf_bytes", "store", "except"} =>
            \A f \in TempFiles : files[f].state = "absent" \/ files[f].writer[1] # s

\* C3: in every interleaving of two export calls, each image a call embeds
\* is the content that this same call wrote to the temporary file, and no
\* call fails because its temporary file is missing or truncated.
C3_IndependentCalls ==
    \A s \in Sessions :
        /\ \A i \in 1..Len(pdf[s]) :
             pdf[s][i].kind = "image" => pdf[s][i].writer[1] = s
        /\ exc[s] \notin {"FileNotFoundError", "NotAnImage"}

\* C4: with an empty product list generate_dashboard_pdf does not raise.
C4_EmptyProductsNoCrash ==
    \A s \in Sessions :
        (product_data[s] = <<>> /\ pc[s] = "except") =>
            exc[s] \notin {"ValueError", "UnicodeEncodeError", "OSError",
                           "FileNotFoundError", "NotAnImage"}

RowBlocks(doc) == SelectSeq(doc, LAMBDA b : b.kind = "row")

\* C5: every input-derived text of the document is the output of
\* clean_text_for_pdf on the raw text: the summary prose, the product names
\* of the table, the notes.
C5_AllTextSanitized ==
    \A s \in Sessions :
        /\ \A i \in 1..Len(pdf[s]) :
             /\ pdf[s][i].kind = "summary" =>
                  pdf[s][i].text =
                     clean_text_for_pdf(summary_text(loc(product_data[s], idxmax(product_data[s]))))
             /\ pdf[s][i].kind = "notes" =>
                  pdf[s][i].text = clean_text_for_pdf(Strip(user_notes[s]))
        /\ \A k \in 1..Len(RowBlocks(pdf[s])) :
             RowBlocks(pdf[s])[k].text = clean_text_for_pdf(product_data[s][k].Product)

\* what the substitution table and the placeholder make of one code point
Keys == {replacements[i][1] : i \in 1..Len(replacements)}
CleanChar(c) ==
    IF c \in Keys THEN replacements[CHOOSE i \in 1..Len(replacements) : replacements[i][1] = c][2]
    ELSE IF c <= 255 THEN <<c>>
    ELSE <<63>>

RECURSIVE CleanEach(_)
CleanEach(text) == IF text = <<>> THEN <<>> ELSE CleanChar(Head(text)) \o CleanEach(Tail(text))

\* C6: the sanitizer is total: it returns a text (no exception), every code
\* point of which is at most 255, and which is the input with each key of the
\* table substituted and each other code point above 255 replaced by '?'.
C6_SanitizerTotal ==
    san_out # NotRun =>
        /\ san_out # UnicodeEncodeError
        /\ IsLatin1(san_out)
        /\ san_out = CleanEach(san_in)

\* C6 witness: an input holding a key of the table and a code point that no
\* substitution covers
C6_Witness ==
    /\ san_out # NotRun
    /\ \E i \in 1..Len(san_in) : san_in[i] = 20013
    /\ \E i \in 1..Len(san_in) : san_in[i] \in Keys
    /\ \E i \in 1..Len(san_out) : san_out[i] = 63

NonBlank(notes) == notes # None /\ \E i \in 1..Len(notes) : ~IsSpace(notes[i])

NotesParts(doc) ==
    SelectSeq(doc, LAMBDA b : b.kind = "notes" \/ (b.kind = "heading" /\ b.title = "Additional Notes"))

\* C7: a built document holds the notes section (heading and text block) iff
\* the notes are neither None nor blank; its text is the sanitized trimmed
\* notes; for other notes nothing of the section is ever emitted.
C7_NotesSection ==
    \A s \in Sessions :
        /\ ~NonBlank(user_notes[s]) => NotesParts(pdf[s]) = <<>>
        /\ NotesParts(pdf[s]) # <<>> =>
             /\ Len(NotesParts(pdf[s])) = 2
             /\ NotesParts(pdf[s])[1].kind = "heading"
             /\ NotesParts(pdf[s])[2].kind = "notes"
             /\ NotesParts(pdf[s])[2].text = clean_text_for_pdf(Strip(user_notes[s]))
        /\ (pc[s] \in {"get_pdf_bytes", "store"} /\ NonBlank(user_notes[s])) =>
             NotesParts(pdf[s]) # <<>>

\* C7 witness: a returned document whose notes were trimmed and sanitized
C7_Witness ==
    /\ pc["s1"] = "get_pdf_bytes"
    /\ user_notes["s1"] = <<32, 8212>>
    /\ pdf["s1"][Len(pdf["s1"])].kind = "notes"
    /\ pdf["s1"][Len(pdf["s1"])].text = <<45, 45>>

\* C8: the product named in the summary is a product of maximal sales, the
\* first such in input order.
C8_TopProduct ==
    \A s \in Sessions :
        \A b \in 1..Len(pdf[s]) :
            pdf[s][b].kind = "summary" =>
                \E i \in 1..Len(product_data[s]) :
                    /\ \A j \in 1..Len(product_data[s]) :
                         product_data[s][j].Sales <= product_data[s][i].Sales
                    /\ \A j \in 1..(i - 1) :
                         product_data[s][j].Sales < product_data[s][i].Sales
                    /\ pdf[s][b].text = Strip(SummaryLead \o product_data[s][i].Product \o <<10>>)

\* C8 witness: a summary built from a filtered table (labels 1 and 2) whose
\* two products tie and carry different names
C8_Witness ==
    /\ Len(pdf["s1"]) >= 1
    /\ pdf["s1"][1].kind = "summary"
    /\ Len(product_data["s1"]) = 2
    /\ product_data["s1"][1].label = 1
    /\ product_data["s1"][2].label = 2
    /\ product_data["s1"][1].Sales = product_data["s1"][2].Sales
    /\ product_data["s1"][1].Product # product_data["s1"][2].Product

\* C9: the sanitizer is idempotent.
C9_SanitizerIdempotent == san_twice # NotRun => san_twice = san_out

\* C9 witness: the second application ran on a text the first one changed
C9_Witness ==
    /\ san_twice # NotRun
    /\ san_out # san_in
    /\ \E i \in 1..Len(san_in) : san_in[i] = 8212

\* C10: once a script run has created the session keys, pdf_data and
\* pdf_filename are both None while no attempt has succeeded, and otherwise
\* are the bytes and the file name of the latest successful attempt; after a
\* script run the download button is shown iff some attempt has succeeded.
C10_SessionStateIsLastSuccess ==
    \A s \in Sessions :
        HasState(s) =>
            /\ IF Successes(s) = {}
               THEN /\ session_state[s].pdf_data = None
                    /\ session_state[s].pdf_filename = None
               ELSE /\ session_state[s].pdf_data # None
                    /\ session_state[s].pdf_data[1] = Max(Successes(s))
                    /\ session_state[s].pdf_filename = <<Max(Successes(s))>>
                    /\ (pc[s] \in {"download", "idle"} /\ Len(log[s]) \in Successes(s)) =>
                         session_state[s].pdf_data = <<Len(log[s]), pdf[s]>>
            /\ pc[s] = "idle" => (download_offered[s] <=> Successes(s) # {})

\* C10 witness: a failed attempt after a successful one, then a rerun
C10_Witness ==
    /\ pc["s1"] = "idle"
    /\ Len(log["s1"]) = 2
    /\ log["s1"][1] = "success"
    /\ log["s1"][2] = "ValueError"
    /\ selected_products["s1"] # {}
    /\ download_offered["s1"]
    /\ session_state["s1"].pdf_data[1] = 1

====
